---- MODULE Spec2Model ----
(***************************************************************************)
(* Greedy, randomized clustering of a pool of sketches, as performed by    *)
(* sourmash-uniqify.py (variant "sketch") and uniqify-genomes.py (variant  *)
(* "files").  One run: seed and shuffle the pool, then pass after pass pop *)
(* a founder, score every remaining item against it, emit the cluster and  *)
(* continue with the leftover; finally write the summary spreadsheet.      *)
(***************************************************************************)
EXTENDS Integers, Sequences, FiniteSets, TLC

\* ---- bounds of the model --------------------------------------------------
MaxItems == 3
MaxScore == 2
MaxSeed == 2
\* cap of the pass counter; a run of the program never reaches it
MaxPasses == MaxItems + 1

VARIABLES
    variant,          \* "sketch" (sourmash-uniqify.py) or "files" (uniqify-genomes.py)
    merge,            \* --merge-cluster-signatures / --merge-files
    threshold,        \* args.threshold
    seed,             \* args.seed
    score,            \* the oracle selected by --max-containment: pair -> score
    loaded,           \* the pool as loaded, in load order
    rng,              \* state of the module-level random generator
    siglist,          \* the pool
    pass_n,
    founder,
    cluster,
    leftover,
    idx,              \* position of the for loop over siglist
    sig,              \* the loop variable (sig_from, sig) / (sig_from, sketch); 0 while unbound
    cluster_summary,
    minhash,          \* item -> set of items whose hashes its sketch holds
    disk,             \* artifacts written: [pass, kind, content]
    report,           \* rows of the summary spreadsheet
    summary_written,  \* the summary spreadsheet exists
    pc,
    clusters,         \* the clusters formed so far, one per completed pass
    runNo,
    firstRun          \* the clusters of the first run, once it is re-run

inputs == <<variant, merge, threshold, seed, score, loaded>>
passvars == <<founder, cluster, leftover, idx>>
vars == <<variant, merge, threshold, seed, score, loaded, rng, siglist,
          pass_n, founder, cluster, leftover, idx, sig, cluster_summary,
          minhash, disk, report, summary_written, pc, clusters, runNo,
          firstRun>>

\* ---- helpers --------------------------------------------------------------
Range(s) == {s[i] : i \in 1..Len(s)}

Pairs(n) == {{a, b} : a, b \in 1..n} \ {{a} : a \in 1..n}

RECURSIVE Fact(_)
Fact(n) == IF n <= 1 THEN 1 ELSE n * Fact(n - 1)

Swap(x, i, j) == [x EXCEPT ![i] = x[j], ![j] = x[i]]

\* the i-th draw of the generator in state st: an index below i
RandBelow(st, i) == (st \div Fact(i - 1)) % i

\* random.shuffle: for i from the last index down, swap x[i] with x[randbelow(i+1)]
RECURSIVE ShuffleFrom(_, _, _)
ShuffleFrom(x, i, st) ==
    IF i <= 1 THEN x
    ELSE ShuffleFrom(Swap(x, i, RandBelow(st, i) + 1), i - 1, st)

Shuffle(x, st) == ShuffleFrom(x, Len(x), st)

\* random.seed(a): the generator state is a function of a alone
\* (faulty variant: the seed is not applied)
SeedKeepsState(st, a) == st
Seed(st, a) == a

\* sig.similarity(founder) / sig.max_containment(founder); a sketch scores
\* the maximum against itself
Score(a, b) == IF a = b THEN MaxScore ELSE score[{a, b}]

\* score >= args.threshold  (faulty variant: strict comparison)
IsMemberStrict(s, t) == s > t
IsMember(s, t) == s >= t

\* while len(siglist)  (faulty variant: stops with one item left)
LoopCondOffByOne(s) == Len(s) > 1
LoopCond(s) == Len(s) > 0

\* siglist.pop()
\* (faulty variant: the item is removed from the front)
Founder(s) == s[Len(s)]
AfterPopFront(s) == Tail(s)
AfterPop(s) == SubSeq(s, 1, Len(s) - 1)

\* siglist = leftover
\* (faulty variant: the pool is not replaced)
NextSiglistKeeps(s, l) == s
NextSiglist(s, l) == l

\* cluster_summary.append(...)
\* (faulty variant: the record is put in front)
AppendRecordFront(log, rec) == <<rec>> \o log
AppendRecord(log, rec) == Append(log, rec)

ClusterMember(item, n, mtype, ctype) ==
    [item |-> item, cluster_num |-> n, member_type |-> mtype, cluster_type |-> ctype]

\* an uncaught exception ends the process
\* (faulty variant: the summary is written all the same)
OnErrorFinally == "summary"
OnError == "failed"

\* ---- emission -------------------------------------------------------------
Artifact(p, kind, content) == [pass |-> p, kind |-> kind, content |-> content]

\* the writes of one pass, in program order.  A "copy" lands in the directory
\* of the pass under the copied file's own name; the others are files named
\* <prefix>cluster.<pass>.<kind>, opened for writing (replacing the old file).
SketchOps(p, f, c, m) ==
    IF c # <<>>
    THEN IF ~m
         THEN <<Artifact(p, "founder.sig", <<f>>), Artifact(p, "cluster.sig", c)>>
         ELSE <<>>
    ELSE <<Artifact(p, "founder.sig", <<f>>)>>

FileOps(p, f, c, m, last) ==
    IF c # <<>>
    THEN IF m
         THEN <<Artifact(p, "fa.gz", <<f>> \o c)>>
         ELSE <<Artifact(p, "dir", <<>>), Artifact(p, "copy", <<last>>)>>
              \o [i \in 1..Len(c) |-> Artifact(p, "copy", <<c[i]>>)]
    ELSE IF m
         THEN <<Artifact(p, "fa.gz", <<f>>)>>
         ELSE <<Artifact(p, "dir", <<>>), Artifact(p, "copy", <<f>>)>>

EmitOps(v, p, f, c, m, last) ==
    IF v = "sketch" THEN SketchOps(p, f, c, m) ELSE FileOps(p, f, c, m, last)

Write(d, a) ==
    IF a.kind = "copy"
    THEN d \cup {a}
    ELSE {b \in d : ~(b.pass = a.pass /\ b.kind = a.kind)} \cup {a}

RECURSIVE Apply(_, _, _)
Apply(d, ops, k) == IF k = 0 THEN d ELSE Write(Apply(d, ops, k - 1), ops[k])

\* mh = founder.minhash.to_mutable(); mh += ss.minhash ...; founder.minhash = mh
Merged(mh, v, f, c, m) ==
    IF v = "sketch" /\ m /\ c # <<>>
    THEN [mh EXCEPT ![f] = mh[f] \cup UNION {mh[c[i]] : i \in 1..Len(c)}]
    ELSE mh

\* the founder's record, appended once the cluster is known (sketch variant)
FounderRecord(v, log, f, p, c) ==
    IF v = "sketch"
    THEN AppendRecord(log, ClusterMember(f, p, "founder",
                        IF c # <<>> THEN "multiclust" ELSE "singleclust"))
    ELSE log

\* one row of the summary spreadsheet; filename and md5sum are read from sig
Row(info, s, mh) ==
    [origin_path |-> info.item, name |-> info.item,
     filename |-> s, md5sum |-> IF s = 0 THEN {} ELSE mh[s],
     cluster_num |-> info.cluster_num, member_type |-> info.member_type,
     cluster_type |-> info.cluster_type]

\* ---- the run --------------------------------------------------------------
Init ==
    /\ variant \in {"sketch", "files"}
    /\ merge \in BOOLEAN
    /\ threshold \in 1..MaxScore
    /\ seed \in 0..MaxSeed
    /\ \E n \in 0..MaxItems :
          /\ loaded = [i \in 1..n |-> i]
          /\ score \in [Pairs(n) -> 0..MaxScore]
          /\ minhash = [i \in 1..n |-> {i}]
          /\ sig = IF variant = "sketch" THEN n ELSE 0
    /\ rng \in {0, MaxSeed}
    /\ siglist = loaded
    /\ pass_n = 0
    /\ founder = 0
    /\ cluster = <<>>
    /\ leftover = <<>>
    /\ idx = 0
    /\ cluster_summary = <<>>
    /\ disk = {}
    /\ report = <<>>
    /\ summary_written = FALSE
    /\ pc = "start"
    /\ clusters = <<>>
    /\ runNo = 1
    /\ firstRun = <<>>

\* random.seed(args.seed); random.shuffle(siglist)
SeedAndShuffle ==
    /\ pc = "start"
    /\ rng' = Seed(rng, seed)
    /\ siglist' = Shuffle(siglist, rng')
    /\ pc' = "loop"
    /\ UNCHANGED <<inputs, passvars, pass_n, sig, cluster_summary, minhash,
                   disk, report, summary_written, clusters, runNo, firstRun>>

\* while len(siglist): (founder_from, founder) = siglist.pop()
StartPass ==
    /\ pc = "loop"
    /\ LoopCond(siglist)
    /\ pass_n < MaxPasses
    /\ founder' = Founder(siglist)
    /\ siglist' = AfterPop(siglist)
    /\ cluster' = <<>>
    /\ leftover' = <<>>
    /\ idx' = 1
    /\ cluster_summary' =
          IF variant = "files"
          THEN AppendRecord(cluster_summary,
                            ClusterMember(Founder(siglist), pass_n, "founder", "none"))
          ELSE cluster_summary
    /\ pc' = "scan"
    /\ UNCHANGED <<inputs, rng, pass_n, sig, minhash, disk, report,
                   summary_written, clusters, runNo, firstRun>>

\* one iteration of: for (sig_from, sig) in siglist
Compare ==
    /\ pc = "scan"
    /\ idx <= Len(siglist)
    /\ LET item == siglist[idx] IN
          /\ sig' = item
          /\ IF IsMember(Score(item, founder), threshold)
             THEN /\ cluster' = Append(cluster, item)
                  /\ cluster_summary' =
                        AppendRecord(cluster_summary,
                            ClusterMember(item, pass_n, "member",
                                IF variant = "sketch" THEN "multiclust" ELSE "none"))
                  /\ UNCHANGED leftover
             ELSE /\ leftover' = Append(leftover, item)
                  /\ UNCHANGED <<cluster, cluster_summary>>
    /\ idx' = idx + 1
    /\ UNCHANGED <<inputs, rng, siglist, pass_n, founder, minhash, disk, report,
                   summary_written, pc, clusters, runNo, firstRun>>

\* the comparison raises: the two sketches are incomparable
CompareFail ==
    /\ pc = "scan"
    /\ idx <= Len(siglist)
    /\ sig' = siglist[idx]
    /\ pc' = OnError
    /\ UNCHANGED <<inputs, rng, siglist, pass_n, passvars, cluster_summary,
                   minhash, disk, report, summary_written, clusters, runNo,
                   firstRun>>

\* the rest of the loop body: record the founder, emit, siglist = leftover
EndPass ==
    /\ pc = "scan"
    /\ idx > Len(siglist)
    /\ LET ops == EmitOps(variant, pass_n, founder, cluster, merge, sig) IN
          disk' = Apply(disk, ops, Len(ops))
    /\ cluster_summary' = FounderRecord(variant, cluster_summary, founder, pass_n, cluster)
    /\ minhash' = Merged(minhash, variant, founder, cluster, merge)
    /\ clusters' = Append(clusters, [pass |-> pass_n, founder |-> founder,
                                    members |-> cluster])
    /\ siglist' = NextSiglist(siglist, leftover)
    /\ pass_n' = pass_n + 1
    /\ pc' = "loop"
    /\ UNCHANGED <<inputs, rng, passvars, sig, report, summary_written, runNo,
                   firstRun>>

\* a write of the emission raises, after k of the pass's writes were done
EmitFail ==
    /\ pc = "scan"
    /\ idx > Len(siglist)
    /\ LET ops == EmitOps(variant, pass_n, founder, cluster, merge, sig) IN
          \E k \in 0..(Len(ops) - 1) : disk' = Apply(disk, ops, k)
    /\ cluster_summary' = FounderRecord(variant, cluster_summary, founder, pass_n, cluster)
    /\ pc' = OnError
    /\ UNCHANGED <<inputs, rng, siglist, pass_n, passvars, sig, minhash, report,
                   summary_written, clusters, runNo, firstRun>>

\* the while loop ends
EndLoop ==
    /\ pc = "loop"
    /\ ~LoopCond(siglist)
    /\ pc' = "summary"
    /\ UNCHANGED <<inputs, rng, siglist, pass_n, passvars, sig, cluster_summary,
                   minhash, disk, report, summary_written, clusters, runNo,
                   firstRun>>

\* output summary spreadsheet (disabled by `if 0:` in the files variant)
WriteSummary ==
    /\ pc = "summary"
    /\ IF variant = "sketch"
       THEN /\ report' = [i \in 1..Len(cluster_summary) |->
                             Row(cluster_summary[i], sig, minhash)]
            /\ summary_written' = TRUE
       ELSE UNCHANGED <<report, summary_written>>
    /\ pc' = "done"
    /\ UNCHANGED <<inputs, rng, siglist, pass_n, passvars, sig, cluster_summary,
                   minhash, disk, clusters, runNo, firstRun>>

\* the program is started again on the same inputs; the disk is kept
Rerun ==
    /\ pc = "done"
    /\ runNo = 1
    /\ runNo' = 2
    /\ firstRun' = clusters
    /\ rng' \in {0, MaxSeed}
    /\ siglist' = loaded
    /\ pass_n' = 0
    /\ founder' = 0
    /\ cluster' = <<>>
    /\ leftover' = <<>>
    /\ idx' = 0
    /\ sig' = IF variant = "sketch" THEN Len(loaded) ELSE 0
    /\ cluster_summary' = <<>>
    /\ minhash' = [i \in 1..Len(loaded) |-> {i}]
    /\ report' = <<>>
    /\ summary_written' = FALSE
    /\ pc' = "start"
    /\ clusters' = <<>>
    /\ UNCHANGED <<inputs, disk>>

Next ==
    \/ SeedAndShuffle
    \/ StartPass
    \/ Compare
    \/ CompareFail
    \/ EndPass
    \/ EmitFail
    \/ EndLoop
    \/ WriteSummary

Spec == Init /\ [][Next]_vars

\* the program runs sequentially and never waits
FairSpec == Init /\ [][Next]_vars /\ WF_vars(Next)

NextTwoRuns == Next \/ Rerun

SpecTwoRuns == Init /\ [][NextTwoRuns]_vars

\* ---- the claims -----------------------------------------------------------
N == Len(loaded)

Items(c) == <<c.founder>> \o c.members

RECURSIVE Flatten(_)
Flatten(cs) == IF cs = <<>> THEN <<>> ELSE Items(Head(cs)) \o Flatten(Tail(cs))

Assigned == Flatten(clusters)

NoDuplicates(s) == Cardinality(Range(s)) = Len(s)

\* C1: partition.  The items of all clusters formed so far are pairwise
\* distinct (no item is founder or member twice, no founder is a member), an
\* item taken out of the pool is never in the pool again, and when the loop
\* has ended the clusters hold exactly the items of the loaded pool.
C1_Partition ==
    /\ NoDuplicates(Assigned)
    /\ \A k \in 1..Len(clusters) : clusters[k].founder \notin Range(clusters[k].members)
    /\ pc = "loop" =>
          /\ Range(Assigned) \cap Range(siglist) = {}
          /\ Range(Assigned) \cup Range(siglist) = Range(loaded)
    /\ pc \in {"summary", "done"} =>
          /\ Range(Assigned) = Range(loaded)
          /\ Len(Assigned) = N

C1_Witness ==
    /\ pc = "done"
    /\ N = 3
    /\ Len(clusters) = 2
    /\ \E k \in 1..2 : Len(clusters[k].members) = 1

\* C2: in the files variant without --merge-files, the files copied into the
\* directory of a pass whose cluster has members are the founder's file and
\* the file of each member, and no others.
C2_CopiesFounderAndMembers ==
    (variant = "files" /\ ~merge) =>
        \A k \in 1..Len(clusters) :
            clusters[k].members # <<>> =>
                {a.content[1] : a \in {b \in disk : b.pass = clusters[k].pass
                                                     /\ b.kind = "copy"}}
                    = Range(Items(clusters[k]))

\* C3: in merge mode every completed pass has exactly one artifact, holding
\* the founder followed by all members of the pass's cluster.
C3_OneMergedArtifactPerPass ==
    merge =>
        \A k \in 1..Len(clusters) :
            \E a \in disk :
                /\ {b \in disk : b.pass = clusters[k].pass} = {a}
                /\ a.content = Items(clusters[k])

PassOrdered(log) ==
    \A i, j \in 1..Len(log) : i < j => log[i].cluster_num <= log[j].cluster_num

FounderFirst(log, p) ==
    \A i, j \in 1..Len(log) :
        (/\ log[i].cluster_num = p /\ log[j].cluster_num = p
         /\ log[i].member_type = "founder" /\ log[j].member_type = "member") => i < j

FounderLast(log, p) ==
    \A i, j \in 1..Len(log) :
        (/\ log[i].cluster_num = p /\ log[j].cluster_num = p
         /\ log[i].member_type = "founder" /\ log[j].member_type = "member") => j < i

ReportInLogOrder ==
    summary_written =>
        /\ Len(report) = Len(cluster_summary)
        /\ \A i \in 1..Len(report) :
              /\ report[i].origin_path = cluster_summary[i].item
              /\ report[i].cluster_num = cluster_summary[i].cluster_num
              /\ report[i].member_type = cluster_summary[i].member_type

\* C4 as stated: the log is ordered pass by pass, in every completed pass the
\* founder's record comes before the record of every member, and the report
\* has the rows in the order of the log.
C4_FounderBeforeMembers ==
    /\ PassOrdered(cluster_summary)
    /\ \A p \in 0..(pass_n - 1) : FounderFirst(cluster_summary, p)
    /\ ReportInLogOrder

\* C4 as amended: the log is ordered pass by pass; in every completed pass the
\* founder's record comes before the members' records in the files variant
\* and after all of them in the sketch variant; the report, which only the
\* sketch variant writes, has the rows in the order of the log.
C4_PassOrder ==
    /\ PassOrdered(cluster_summary)
    /\ \A p \in 0..(pass_n - 1) :
          /\ variant = "files" => FounderFirst(cluster_summary, p)
          /\ variant = "sketch" => FounderLast(cluster_summary, p)
    /\ \A k \in 1..Len(clusters) :
          \E i \in 1..Len(cluster_summary) :
              /\ cluster_summary[i].item = clusters[k].founder
              /\ cluster_summary[i].member_type = "founder"
              /\ cluster_summary[i].cluster_num = clusters[k].pass
    /\ ReportInLogOrder
    /\ variant = "files" => ~summary_written

C4_Witness ==
    /\ variant = "sketch"
    /\ summary_written
    /\ Len(clusters) = 2
    /\ Len(clusters[1].members) = 1
    /\ Len(report) = 3

\* C5: every row of the report has the filename and the md5sum of the sketch
\* of the item the row's record was created for.
C5_RowsOfOwnItem ==
    summary_written =>
        \A i \in 1..Len(report) :
            /\ report[i].filename = cluster_summary[i].item
            /\ report[i].md5sum = minhash[cluster_summary[i].item]

\* C6: at the end of a pass the members of its cluster are exactly the items
\* of the pool whose score against the pass's founder is >= threshold, in
\* pool order, and the pool of the next pass is exactly the others, in pool
\* order.
C6_InclusiveThreshold ==
    [][(pc = "scan" /\ pc' = "loop") =>
          LET Joins(i) == Score(i, founder) >= threshold
              Stays(i) == Score(i, founder) < threshold
          IN  /\ clusters'[Len(clusters')].founder = founder
              /\ clusters'[Len(clusters')].members = SelectSeq(siglist, Joins)
              /\ siglist' = SelectSeq(siglist, Stays)]_vars

C6_Witness ==
    /\ pc = "loop"
    /\ Len(clusters) = 1
    /\ Len(siglist) = 1
    /\ Len(clusters[1].members) = 1
    /\ Score(clusters[1].members[1], clusters[1].founder) = threshold
    /\ Score(siglist[1], clusters[1].founder) < threshold

PassBounds ==
    /\ Len(clusters) = pass_n
    /\ \A k \in 1..Len(clusters) : clusters[k].pass = k - 1
    /\ N = 0 => pass_n = 0
    /\ N > 0 => (1 <= pass_n /\ pass_n <= N)

\* C7: the run ends, by a fatal error or with the loop finished; when the
\* loop has finished there is one cluster per pass, the passes are numbered
\* 0, 1, 2, ..., and their number is 0 for an empty pool and between 1 and N
\* otherwise.  Until then every pass begun has taken at least one item out of
\* the pool.
C7_Terminates ==
    /\ [](pc \in {"loop", "scan"} => Len(siglist) + Len(clusters) < N + 1)
    /\ [](pc = "scan" => Len(siglist) + Len(clusters) < N)
    /\ <>(pc = "failed" \/ (pc = "done" /\ siglist = <<>> /\ PassBounds))

C7_Witness ==
    /\ pc = "done"
    /\ N = 3
    /\ pass_n = 3

\* C8: a second run on the same pool, seed, threshold and scores forms the
\* same clusters as the first, pass for pass: same pass number, same founder,
\* same members in the same order.
C8_Deterministic ==
    runNo = 2 =>
        /\ Len(clusters) <= Len(firstRun)
        /\ \A k \in 1..Len(clusters) : clusters[k] = firstRun[k]
        /\ pc = "done" => clusters = firstRun

C8_Witness ==
    /\ runNo = 2
    /\ pc = "done"
    /\ N = 3
    /\ Len(clusters) = 2
    /\ clusters = firstRun

ArtifactsBefore(d, p) == {a \in d : a.pass < p}

\* C9: no step of pass p changes an artifact of the passes before p; a run
\* stopped by a fatal error has no summary; and the summary exists only once
\* every pass has completed, that is once every loaded item is in a cluster.
C9_NoSummaryAfterError ==
    [][/\ ArtifactsBefore(disk', pass_n) = ArtifactsBefore(disk, pass_n)
       /\ pc' = "failed" => ~summary_written'
       /\ summary_written' => (/\ pc' = "done"
                               /\ siglist' = <<>>
                               /\ Range(Flatten(clusters')) = Range(loaded))]_vars

C9_Witness ==
    /\ pc = "failed"
    /\ variant = "sketch"
    /\ pass_n = 1
    /\ ArtifactsBefore(disk, pass_n) # {}
    /\ ~summary_written

\* C10: every item of the cluster of a pass scored below the threshold against
\* the founder of every earlier pass, and so did every item still in the pool.
C10_BelowEarlierFounders ==
    /\ \A i, j \in 1..Len(clusters) :
          i < j => \A x \in Range(Items(clusters[j])) :
                       Score(x, clusters[i].founder) < threshold
    /\ pc = "loop" =>
          \A i \in 1..Len(clusters) : \A x \in Range(siglist) :
              Score(x, clusters[i].founder) < threshold

C10_Witness ==
    /\ Len(clusters) = 2
    /\ Len(clusters[2].members) = 1
    /\ Score(clusters[2].members[1], clusters[2].founder) >= threshold

====
